---- MODULE Spec2Model ----
(***************************************************************************)
(* Weather aggregator: the /api/weather fan-out over three provider        *)
(* adapters with accuracy-based selection, and the /api/locations/search   *)
(* resolver with its cache fallback, over the in-memory storage.           *)
(*                                                                         *)
(* Conventions.  Accuracy scores are integers in hundredths (0.94 is 94).  *)
(* A JavaScript Map is a sequence in insertion order; randomUUID() keys    *)
(* are the entry's position, which is unique because nothing is deleted.   *)
(* Timestamps (fetchedAt, createdAt) and the forecast payload are left     *)
(* out of the records.  Each handler is cut into steps at its awaits, and   *)
(* serves one request at a time.  A save on the storage collaborator may   *)
(* be rejected: MemStorage never does, the handlers' catch blocks provide  *)
(* for a storage that does.                                                *)
(***************************************************************************)
EXTENDS Integers, Sequences, FiniteSets, TLC

VARIABLES
    weatherData,          \* MemStorage.weatherData, in insertion order
    locations,            \* MemStorage.locations, in insertion order
    wpc,                  \* position of the /api/weather handler
    wquery,               \* req.query of the weather request: lat, lon, location
    calls,                \* weatherPromises: per source "none", "pending", or settled value
    settleOrder,          \* the sources whose call has settled, in the order they settled
    weatherWithAccuracy,  \* the scored successes, <<>> until scoring ran
    wsaves,               \* the outcome of each iteration of the save loop so far
    wres,                 \* the response written to res
    wlog,                 \* the lines the handler wrote to console.error for the request
    spc,                  \* position of the /api/locations/search handler
    q,                    \* req.query.q of the search request
    geocode,              \* the geocoding call: not made, pending, or settled with its data
    found,                \* the handler's local locations: the geocoder's mapped results
    ssaves,               \* the outcome of each iteration of the location save loop so far
    sres,                 \* the response written to res by the search handler
    call,                 \* a single call of one function: the function and its arguments
    returned              \* what that call returned, once it ran

wvars == <<weatherData, wpc, wquery, calls, settleOrder, weatherWithAccuracy, wsaves, wres, wlog>>
svars == <<locations, spc, q, geocode, found, ssaves, sres>>
cvars == <<call, returned>>
vars == <<weatherData, wpc, wquery, calls, settleOrder, weatherWithAccuracy, wsaves, wres,
          wlog, locations, spc, q, geocode, found, ssaves, sres, call, returned>>

----------------------------------------------------------------------------
(* Bounds *)

\* a weather request is accepted while its records still fit in a store of this size
MaxStored == 4

----------------------------------------------------------------------------
(* JavaScript values *)

\* a query parameter that is absent, and a property that is missing
Undefined == "<undefined>"
\* the null that fetchWeatherFromSource returns for a failed adapter
Null == [source |-> "<null>"]
\* a number, in hundredths, and an object (a function is one) that is no number
Num(h) == [type |-> "number", hundredths |-> h]
Obj(name) == [type |-> "object", name |-> name]
\* a > b on two values: a comparison with a value that is no number is false
Greater(a, b) == a.type = "number" /\ b.type = "number" /\ a.hundredths > b.hundredths

\* !v for a query parameter: absent and the empty string are falsy
Falsy(v) == v = Undefined \/ v = ""

\* Number(v) for the query parameters the model draws
Number(v) ==
    CASE v = Undefined -> "NaN"
      [] v = "" -> "0"
      [] v = "47.6062" -> "47.6062"
      [] v = "-122.3321" -> "-122.3321"
      [] OTHER -> "NaN"

\* String(v): an absent parameter becomes the text "undefined"
String(v) == IF v = Undefined THEN "undefined" ELSE v

LatInputs == {Undefined, "", "47.6062"}
LonInputs == {Undefined, "-122.3321"}
LocationInputs == {Undefined, "Seattle"}

----------------------------------------------------------------------------
(* The adapters *)

weatherSources == <<"openweathermap", "weatherapi", "accuweather">>
KnownSources == {weatherSources[i] : i \in 1..Len(weatherSources)}

\* what a provider call can do: answer well, or fail in one of three ways
ProviderOutcomes == {"ok", "network", "auth", "malformed"}

\* the place name in a provider's answer
ProviderPlace == "Seattle, US"

\* each adapter: the record it builds from a good answer; anything else throws
fetchOpenWeatherMap(lat, lon) ==
    [source |-> "openweathermap", location |-> ProviderPlace, latitude |-> lat, longitude |-> lon]
fetchWeatherAPI(lat, lon) ==
    [source |-> "weatherapi", location |-> ProviderPlace, latitude |-> lat, longitude |-> lon]
fetchAccuWeather(lat, lon) ==
    [source |-> "accuweather", location |-> ProviderPlace, latitude |-> lat, longitude |-> lon]

\* The forecast lists of a record, by their lengths.  A provider's answer is
\* taken as the number of entries it supplies: items of OpenWeatherMap's
\* forecast.list, days of forecastday (WeatherAPI) or DailyForecasts
\* (AccuWeather), hours of WeatherAPI's first forecastday.
HourlyLimit == 24
DailyLimit == 10
DailyStride == 8
\* the length of list.slice(0, limit) and of list.filter((_, i) => i % stride === 0)
sliceLength(n, limit) == IF n < limit THEN n ELSE limit
strideLength(n, stride) == (n + stride - 1) \div stride

\* [hourly, daily]: the lengths of hourlyForecast and dailyForecast in the
\* record each adapter builds; Null where building it throws
forecastOpenWeatherMap(answer) ==
    [hourly |-> sliceLength(answer.items, HourlyLimit),
     daily |-> sliceLength(strideLength(answer.items, DailyStride), DailyLimit)]
forecastWeatherAPI(answer) ==
    IF answer.days = 0 THEN Null
    ELSE [hourly |-> sliceLength(answer.hours, HourlyLimit), daily |-> answer.days]
forecastAccuWeather(answer) == [hourly |-> 0, daily |-> answer.days]
forecastOf(source, answer) ==
    CASE source = "openweathermap" -> forecastOpenWeatherMap(answer)
      [] source = "weatherapi" -> forecastWeatherAPI(answer)
      [] source = "accuweather" -> forecastAccuWeather(answer)

\* a settled promise
Fulfilled(v) == [status |-> "fulfilled", value |-> v]
Rejected == [status |-> "rejected"]
Pending == [status |-> "pending"]
NotIssued == [status |-> "none"]

\* mutants of the dispatcher: without the try/catch a throw rejects the promise;
\* with a default branch that fetches anyway, an unknown source gives a record
fetchWeatherFromSource_rethrow(source, params, outcome) ==
    IF outcome # "ok" \/ source \notin KnownSources THEN Rejected
    ELSE Fulfilled([source |-> source, location |-> ProviderPlace,
                    latitude |-> params.lat, longitude |-> params.lon])
fetchWeatherFromSource_anySource(source, params, outcome) ==
    IF outcome # "ok" THEN Fulfilled(Null)
    ELSE Fulfilled([source |-> source, location |-> ProviderPlace,
                    latitude |-> params.lat, longitude |-> params.lon])

\* the dispatcher: the promise it returns.  A throw of the adapter (any outcome
\* but "ok") or of the default branch is caught and becomes a fulfilled null.
fetchWeatherFromSource(source, params, outcome) ==
    CASE source = "openweathermap" ->
           IF outcome = "ok" THEN Fulfilled(fetchOpenWeatherMap(params.lat, params.lon))
           ELSE Fulfilled(Null)
      [] source = "weatherapi" ->
           IF outcome = "ok" THEN Fulfilled(fetchWeatherAPI(params.lat, params.lon))
           ELSE Fulfilled(Null)
      [] source = "accuweather" ->
           IF outcome = "ok" THEN Fulfilled(fetchAccuWeather(params.lat, params.lon))
           ELSE Fulfilled(Null)
      [] OTHER -> Fulfilled(Null)

----------------------------------------------------------------------------
(* MemStorage: the accuracy scorer and the weather record store *)

\* mutant of the table: the scores of two providers exchanged
accuracyMap_exchanged == [openweathermap |-> 87, accuweather |-> 89, weatherapi |-> 94]

accuracyMap == [openweathermap |-> 94, accuweather |-> 89, weatherapi |-> 87]
BaselineAccuracy == 85

\* names every object inherits from Object.prototype
ObjectPrototypeKeys ==
    {"constructor", "toString", "valueOf", "hasOwnProperty", "__proto__"}

\* accuracyMap[source]: an own entry, an inherited member, or undefined
accuracyMapGet(source) ==
    IF source \in DOMAIN accuracyMap THEN Num(accuracyMap[source])
    ELSE IF source \in ObjectPrototypeKeys THEN Obj(source)
    ELSE [type |-> "undefined"]

\* v is truthy: a number other than 0, or an object
Truthy(v) ==
    CASE v.type = "number" -> v.hundredths # 0
      [] v.type = "undefined" -> FALSE
      [] OTHER -> TRUE

\* accuracyMap[source] || 0.85
getWeatherAccuracy(source, location) ==
    IF Truthy(accuracyMapGet(source)) THEN accuracyMapGet(source)
    ELSE Num(BaselineAccuracy)

\* the record the store keeps for data: data with its id
StoredWeather(data, id) ==
    [id |-> id, source |-> data.source, location |-> data.location,
     latitude |-> data.latitude, longitude |-> data.longitude,
     accuracy |-> data.accuracy]

\* mutant of the store: a single slot that holds the latest record only
saveWeatherData_latestOnly(store, data) == <<StoredWeather(data, 1)>>

\* saveWeatherData: the store after a save of data
saveWeatherData(store, data) == Append(store, StoredWeather(data, Len(store) + 1))

\* what a save on the storage collaborator can do
SaveOutcomes == {"ok", "rejected"}

----------------------------------------------------------------------------
(* GET /api/weather *)

\* results.filter(fulfilled).map(value).filter(Boolean), in the order of sources
\* mutant of the collection: the records are taken as their calls settle
RECURSIVE successfulResults_asSettled(_, _)
successfulResults_asSettled(results, i) ==
    IF i > Len(settleOrder) THEN <<>>
    ELSE LET r == results[settleOrder[i]]
             rest == successfulResults_asSettled(results, i + 1)
         IN IF r.status = "fulfilled" /\ r.value # Null THEN <<r.value>> \o rest
            ELSE rest

RECURSIVE successfulResults(_, _)
successfulResults(results, i) ==
    IF i > Len(weatherSources) THEN <<>>
    ELSE LET r == results[weatherSources[i]]
             rest == successfulResults(results, i + 1)
         IN IF r.status = "fulfilled" /\ r.value # Null THEN <<r.value>> \o rest
            ELSE rest

\* { ...weather, accuracy }
WithAccuracy(weather) ==
    [source |-> weather.source, location |-> weather.location,
     latitude |-> weather.latitude, longitude |-> weather.longitude,
     accuracy |-> getWeatherAccuracy(weather.source, weather.location)]

accuracyPromises(successes) == [i \in 1..Len(successes) |-> WithAccuracy(successes[i])]

\* mutants of the reducer's step: the comparison reversed, and not strict
moreAccurate_reversed(prev, current) ==
    IF Greater(prev.accuracy, current.accuracy) THEN current ELSE prev
moreAccurate_notStrict(prev, current) ==
    IF Greater(prev.accuracy, current.accuracy) THEN prev ELSE current

\* the reducer's step: the current record only if strictly more accurate
moreAccurate(prev, current) ==
    IF Greater(current.accuracy, prev.accuracy) THEN current ELSE prev

\* list.reduce(moreAccurate) without an initial value, on a non-empty list
RECURSIVE reduceFrom(_, _, _)
reduceFrom(list, prev, i) ==
    IF i > Len(list) THEN prev
    ELSE reduceFrom(list, moreAccurate(prev, list[i]), i + 1)
mostAccurateOf(list) == reduceFrom(list, list[1], 2)

NoResponse == [status |-> 0]
ErrorResponse(code, msg) == [status |-> code, message |-> msg]
WeatherResponse(list) ==
    [status |-> 200, sources |-> list,
     mostAccurate |-> mostAccurateOf(list), aggregated |-> mostAccurateOf(list)]

\* mutant of the 503: without the length check the catch answers 500
AllSourcesFailed_generic == ErrorResponse(500, "Failed to fetch weather data")

\* the answer when no source gave a record
AllSourcesFailed == ErrorResponse(503, "Failed to fetch weather data from all sources")

\* the params every adapter call of the request gets
ParamsOf(query) ==
    [lat |-> Number(query.lat), lon |-> Number(query.lon), location |-> String(query.location)]

\* weatherSources.map(source => fetchWeatherFromSource(...)): every call is
\* issued in the one synchronous pass, before the handler awaits
IssueAll == [s \in KnownSources |-> Pending]
NoCalls == [s \in KnownSources |-> NotIssued]

\* a request arrives: 400 without lat/lon and without location, else fan out
WeatherRequest(lat, lon, location) ==
    /\ wpc \in {"idle", "done"}
    /\ Len(weatherData) + Len(weatherSources) <= MaxStored
    /\ wquery' = [lat |-> lat, lon |-> lon, location |-> location]
    /\ weatherWithAccuracy' = <<>>
    /\ wsaves' = <<>>
    /\ wlog' = <<>>
    /\ settleOrder' = <<>>
    /\ IF (Falsy(lat) \/ Falsy(lon)) /\ Falsy(location)
       THEN /\ wres' = ErrorResponse(400, "Either lat/lon or location is required")
            /\ calls' = NoCalls
            /\ wpc' = "done"
       ELSE /\ wres' = NoResponse
            /\ calls' = IssueAll
            /\ wpc' = "fanout"
    /\ UNCHANGED <<weatherData, svars, cvars>>

\* one adapter call settles
AdapterSettle(source, outcome) ==
    /\ wpc = "fanout"
    /\ calls[source] = Pending
    /\ calls' = [calls EXCEPT ![source] = fetchWeatherFromSource(source, ParamsOf(wquery), outcome)]
    /\ settleOrder' = Append(settleOrder, source)
    /\ UNCHANGED <<weatherData, wpc, wquery, weatherWithAccuracy, wsaves, wres, wlog, svars, cvars>>

\* mutant of the join: it resolves as soon as one call has settled
AllSettled_first(results) == \E s \in KnownSources : results[s].status \in {"fulfilled", "rejected"}

AllSettled(results) == \A s \in KnownSources : results[s].status \in {"fulfilled", "rejected"}

\* mutant of the join: like Promise.any it resolves as soon as one call has
\* given a record, or when all have settled
Join_anySuccess ==
    /\ wpc = "fanout"
    /\ \/ AllSettled(calls)
       \/ \E s \in KnownSources : calls[s].status = "fulfilled" /\ calls[s].value # Null
    /\ LET successes == successfulResults(calls, 1)
       IN IF Len(successes) = 0
          THEN /\ wres' = AllSourcesFailed
               /\ wpc' = "done"
               /\ UNCHANGED weatherWithAccuracy
          ELSE /\ weatherWithAccuracy' = accuracyPromises(successes)
               /\ wpc' = "saving"
               /\ UNCHANGED wres
    /\ UNCHANGED <<weatherData, wquery, calls, settleOrder, wsaves, wlog, svars, cvars>>

\* Promise.allSettled resolves: 503 when nothing succeeded, else score
Join ==
    /\ wpc = "fanout"
    /\ AllSettled(calls)
    /\ LET successes == successfulResults(calls, 1)
       IN IF Len(successes) = 0
          THEN /\ wres' = AllSourcesFailed
               /\ wpc' = "done"
               /\ UNCHANGED weatherWithAccuracy
          ELSE /\ weatherWithAccuracy' = accuracyPromises(successes)
               /\ wpc' = "saving"
               /\ UNCHANGED wres
    /\ UNCHANGED <<weatherData, wquery, calls, settleOrder, wsaves, wlog, svars, cvars>>

\* the answer of the handler's outer catch
FetchFailed == ErrorResponse(500, "Failed to fetch weather data")

\* mutant of the save loop: without the inner try/catch a rejected save leaves
\* the loop for the outer catch
SaveWeather_uncaught(outcome) ==
    /\ wpc = "saving"
    /\ Len(wsaves) < Len(weatherWithAccuracy)
    /\ wsaves' = Append(wsaves, outcome)
    /\ IF outcome = "ok"
       THEN /\ weatherData' = saveWeatherData(weatherData, weatherWithAccuracy[Len(wsaves) + 1])
            /\ UNCHANGED <<wpc, wres, wlog>>
       ELSE /\ wres' = FetchFailed
            /\ wpc' = "done"
            /\ wlog' = Append(wlog, "Weather fetch error:")
            /\ UNCHANGED weatherData
    /\ UNCHANGED <<wquery, calls, settleOrder, weatherWithAccuracy, svars, cvars>>

\* one iteration of the save loop: a rejected save is logged and skipped
SaveWeather(outcome) ==
    /\ wpc = "saving"
    /\ Len(wsaves) < Len(weatherWithAccuracy)
    /\ wsaves' = Append(wsaves, outcome)
    /\ IF outcome = "ok"
       THEN /\ weatherData' = saveWeatherData(weatherData, weatherWithAccuracy[Len(wsaves) + 1])
            /\ UNCHANGED wlog
       ELSE /\ wlog' = Append(wlog, "Failed to save weather data:")
            /\ UNCHANGED weatherData
    /\ UNCHANGED <<wpc, wquery, calls, settleOrder, weatherWithAccuracy, wres, svars, cvars>>

\* after the loop: select and answer
Respond ==
    /\ wpc = "saving"
    /\ Len(wsaves) = Len(weatherWithAccuracy)
    /\ wres' = WeatherResponse(weatherWithAccuracy)
    /\ wpc' = "done"
    /\ UNCHANGED <<weatherData, wquery, calls, settleOrder, weatherWithAccuracy, wsaves, wlog, svars, cvars>>

----------------------------------------------------------------------------
(* Text: a string is the sequence of its characters *)

Uppers == <<"A", "B", "C", "E", "H", "N", "O", "P", "R", "S", "U", "Z">>
Lowers == <<"a", "b", "c", "e", "h", "n", "o", "p", "r", "s", "u", "z">>

\* a property that may be missing: country?, state?
Text(chars) == [def |-> TRUE, text |-> chars]
NoText == [def |-> FALSE, text |-> <<>>]

toLowerCaseChar(c) ==
    IF \E i \in 1..Len(Uppers) : Uppers[i] = c
    THEN Lowers[CHOOSE i \in 1..Len(Uppers) : Uppers[i] = c]
    ELSE c
toLowerCase(text) == [i \in 1..Len(text) |-> toLowerCaseChar(text[i])]

\* text.includes(sub)
includes(text, sub) ==
    \E k \in 0..(Len(text) - Len(sub)) : SubSeq(text, k + 1, k + Len(sub)) = sub

----------------------------------------------------------------------------
(* MemStorage: the location cache *)

\* the Location the cache keeps for location: location with its id
StoredLocation(location, id) ==
    [id |-> id, name |-> location.name, latitude |-> location.latitude,
     longitude |-> location.longitude, country |-> location.country,
     state |-> location.state]

\* saveLocation: the cache after a save of location
saveLocation(store, location) == Append(store, StoredLocation(location, Len(store) + 1))

\* A coordinate is a decimal with four places, written X for X / CoordScale
\* degrees.  The code holds it as a Number: the double nearest to the decimal,
\* with MantissaBits fraction bits below its leading bit.  The operators below
\* compute with those doubles, for coordinates of magnitude 1 to 256 degrees.
CoordScale == 10000
MantissaBits == 52
\* 0.01 in units of 1 / CoordScale, and the fraction bits of the double 0.01,
\* which lies between 2^-7 and 2^-6
Tolerance == 100
ToleranceBits == 59

Abs(n) == IF n < 0 THEN -n ELSE n
RECURSIVE Pow2(_)
Pow2(k) == IF k = 0 THEN 1 ELSE 2 * Pow2(k - 1)
RECURSIVE Pow2Mod(_, _)
Pow2Mod(k, m) == IF k = 0 THEN 1 % m ELSE (2 * Pow2Mod(k - 1, m)) % m

\* the doubles around X / CoordScale are 2^-FractionBits(X) apart
Exponent(X) ==
    CHOOSE e \in 0..7 :
        Pow2(e) * CoordScale <= Abs(X) /\ Abs(X) < Pow2(e + 1) * CoordScale
FractionBits(X) == MantissaBits - Exponent(X)

\* round to nearest: the double of n / CoordScale at the given fraction bits,
\* less n / CoordScale, in units of 1 / (CoordScale * 2^bits).  The remainder
\* is a multiple of 16 and so never the tie CoordScale / 2.
Rounding(n, bits) ==
    LET r == ((n % CoordScale) * Pow2Mod(bits, CoordScale)) % CoordScale
    IN  IF 2 * r < CoordScale THEN 0 - r ELSE CoordScale - r

\* the double of X / CoordScale less X / CoordScale, in units of
\* 1 / (CoordScale * 2^ToleranceBits)
DoubleError(X) ==
    LET e == Rounding(Abs(X), FractionBits(X)) * Pow2(ToleranceBits - FractionBits(X))
    IN  IF X < 0 THEN 0 - e ELSE e
ToleranceError == Rounding(Tolerance, ToleranceBits)

\* Math.abs(a - b) < 0.01 on the doubles of X and Y.  The subtraction of two
\* doubles this close is exact, so the rounding of the three literals decides
\* the comparison when the decimals are exactly 0.01 apart, and only then.
absDiffBelowTolerance(X, Y) ==
    LET D == X - Y
        E == DoubleError(X) - DoubleError(Y)
    IN  IF Abs(D) # Tolerance THEN Abs(D) < Tolerance
        ELSE (IF D > 0 THEN E ELSE 0 - E) < ToleranceError

\* what Array.prototype.find gives when no element satisfies the predicate
UndefinedLocation == [undefined |-> TRUE]

\* getLocationByCoords: the first Location of the cache, in insertion order,
\* within the tolerance on both axes
getLocationByCoords(store, lat, lon) ==
    LET hits == {i \in 1..Len(store) :
                    /\ absDiffBelowTolerance(store[i].latitude, lat)
                    /\ absDiffBelowTolerance(store[i].longitude, lon)}
    IN  IF hits = {} THEN UndefinedLocation
        ELSE store[CHOOSE i \in hits : \A j \in hits : i <= j]

\* mutant of the filter: only the name is searched
matchesQuery_nameOnly(loc, lowercaseQuery) == includes(toLowerCase(loc.name), lowercaseQuery)

\* the filter of searchLocations on one Location
matchesQuery(loc, lowercaseQuery) ==
    \/ includes(toLowerCase(loc.name), lowercaseQuery)
    \/ (loc.country.def /\ includes(toLowerCase(loc.country.text), lowercaseQuery))
    \/ (loc.state.def /\ includes(toLowerCase(loc.state.text), lowercaseQuery))

\* searchLocations: the Locations of the cache that match, in cache order
searchLocations(store, query) ==
    SelectSeq(store, LAMBDA loc : matchesQuery(loc, toLowerCase(query)))

----------------------------------------------------------------------------
(* GET /api/locations/search *)

\* the most entries one geocoder answer holds, and the most the cache holds
MaxResults == 2
MaxLocations == 3

\* req.query.q: a string, absent, or an array (a repeated parameter)
Q(chars) == [kind |-> "string", text |-> chars]
NoQ == [kind |-> "undefined", text |-> <<>>]
ArrayQ == [kind |-> "array", text |-> <<>>]
QInputs ==
    {Q(<<"s", "p">>), Q(<<"B", "E">>), Q(<<"c", "o">>), Q(<<"z">>), Q(<<>>), NoQ, ArrayQ}

\* !q || typeof q !== 'string'
BadQ(v) == v.kind = "undefined" \/ (v.kind = "string" /\ v.text = <<>>) \/ v.kind # "string"

\* entries the geocoding provider can answer with: name, lat, lon in 1e-4
\* degrees, country, state
GeoEntries ==
    { [name |-> <<"S", "p", "a">>, lat |-> 504920, lon |-> 58640,
       country |-> Text(<<"B", "E">>), state |-> NoText],
      [name |-> <<"B", "e", "r", "n">>, lat |-> 469480, lon |-> 74474,
       country |-> Text(<<"C", "H">>), state |-> Text(<<"B", "E">>)],
      [name |-> <<"A", "s", "p", "e", "n">>, lat |-> 391911, lon |-> -1068175,
       country |-> Text(<<"U", "S">>), state |-> Text(<<"C", "O">>)] }

\* the geocoder's answers: up to MaxResults entries
GeoAnswers == UNION {[1..n -> GeoEntries] : n \in 0..MaxResults}

\* why the geocoding call, or the mapping of its answer, throws
GeoFailures == {"network", "auth", "malformed"}

\* response.data.map(loc => ({name, latitude, longitude, country, state}))
mapLocation(loc) ==
    [name |-> loc.name, latitude |-> loc.lat, longitude |-> loc.lon,
     country |-> loc.country, state |-> loc.state]
mapLocations(data) == [i \in 1..Len(data) |-> mapLocation(data[i])]

JsonResponse(body) == [status |-> 200, body |-> body]

\* a search request arrives: 400 without a usable q, else the geocoder is called
SearchRequest(v) ==
    /\ spc \in {"idle", "done"}
    /\ q' = v
    /\ found' = <<>>
    /\ ssaves' = <<>>
    /\ IF BadQ(v)
       THEN /\ sres' = ErrorResponse(400, "Query parameter 'q' is required")
            /\ geocode' = NotIssued
            /\ spc' = "done"
       ELSE /\ sres' = NoResponse
            /\ geocode' = Pending
            /\ spc' = "geocoding"
    /\ UNCHANGED <<locations, wvars, cvars>>

\* the geocoder answers with data: map it and enter the save loop
GeocodeFulfilled(data) ==
    /\ spc = "geocoding"
    /\ Len(locations) + Len(data) <= MaxLocations
    /\ geocode' = Fulfilled(data)
    /\ found' = mapLocations(data)
    /\ spc' = "saving"
    /\ UNCHANGED <<locations, q, ssaves, sres, wvars, cvars>>

\* mutant of the save loop: without the inner try/catch a rejected save leaves
\* the loop for the fallback
SaveLocation_uncaught(outcome) ==
    /\ spc = "saving"
    /\ Len(ssaves) < Len(found)
    /\ ssaves' = Append(ssaves, outcome)
    /\ IF outcome = "ok"
       THEN /\ locations' = saveLocation(locations, found[Len(ssaves) + 1])
            /\ UNCHANGED <<spc, sres>>
       ELSE /\ sres' = JsonResponse(searchLocations(locations, q.text))
            /\ spc' = "done"
            /\ UNCHANGED locations
    /\ UNCHANGED <<q, found, geocode, wvars, cvars>>

\* one iteration of the save loop: a rejected save is ignored
SaveLocation(outcome) ==
    /\ spc = "saving"
    /\ Len(ssaves) < Len(found)
    /\ ssaves' = Append(ssaves, outcome)
    /\ locations' = IF outcome = "ok" THEN saveLocation(locations, found[Len(ssaves) + 1])
                    ELSE locations
    /\ UNCHANGED <<spc, q, found, geocode, sres, wvars, cvars>>

\* after the loop: answer with the geocoder's results
SearchRespond ==
    /\ spc = "saving"
    /\ Len(ssaves) = Len(found)
    /\ sres' = JsonResponse(found)
    /\ spc' = "done"
    /\ UNCHANGED <<locations, q, found, geocode, ssaves, wvars, cvars>>

\* mutant of the fallback: it saves the first Location it found again
GeocodeRejected_remember(why) ==
    /\ spc = "geocoding"
    /\ geocode' = Rejected
    /\ sres' = JsonResponse(searchLocations(locations, q.text))
    /\ spc' = "done"
    /\ LET localResults == searchLocations(locations, q.text)
       IN locations' = IF Len(localResults) > 0 /\ Len(locations) < MaxLocations
                       THEN saveLocation(locations, localResults[1])
                       ELSE locations
    /\ UNCHANGED <<q, found, ssaves, wvars, cvars>>

\* the geocoder call throws: answer from the cache
GeocodeRejected(why) ==
    /\ spc = "geocoding"
    /\ geocode' = Rejected
    /\ sres' = JsonResponse(searchLocations(locations, q.text))
    /\ spc' = "done"
    /\ UNCHANGED <<locations, q, found, ssaves, wvars, cvars>>

SearchNext ==
    \/ \E v \in QInputs : SearchRequest(v)
    \/ \E data \in GeoAnswers : GeocodeFulfilled(data)
    \/ \E o \in SaveOutcomes : SaveLocation(o)
    \/ SearchRespond
    \/ \E why \in GeoFailures : GeocodeRejected(why)

----------------------------------------------------------------------------
NoCall == [fn |-> "none"]
NotReturned == [done |-> FALSE]
Returned(v) == [done |-> TRUE, value |-> v]

NoQuery == [lat |-> Undefined, lon |-> Undefined, location |-> Undefined]

\* the state after new MemStorage() and registerRoutes, with no request yet
Constructed ==
    /\ weatherData = <<>>
    /\ locations = <<>>
    /\ wpc = "idle"
    /\ wquery = NoQuery
    /\ calls = NoCalls
    /\ settleOrder = <<>>
    /\ weatherWithAccuracy = <<>>
    /\ wsaves = <<>>
    /\ wres = NoResponse
    /\ wlog = <<>>
    /\ spc = "idle"
    /\ q = NoQ
    /\ geocode = NotIssued
    /\ found = <<>>
    /\ ssaves = <<>>
    /\ sres = NoResponse

Init ==
    /\ Constructed
    /\ call = NoCall
    /\ returned = NotReturned

WeatherNext ==
    \/ \E lat \in LatInputs, lon \in LonInputs, location \in LocationInputs :
          WeatherRequest(lat, lon, location)
    \/ \E s \in KnownSources, o \in ProviderOutcomes : AdapterSettle(s, o)
    \/ Join
    \/ \E o \in SaveOutcomes : SaveWeather(o)
    \/ Respond

Next == WeatherNext \/ SearchNext

\* The two handlers share no variable: /api/weather reads and writes only the
\* weather record store, /api/locations/search only the location cache.  Each
\* is therefore explored on its own, which keeps the bounds of each wide.
Spec == Init /\ [][WeatherNext]_vars
SpecSearch == Init /\ [][SearchNext]_vars

\* The weather handler with its scheduling.  The event loop runs every
\* continuation that is ready, so the steps of the handler are taken once they
\* can be.  A provider that answers or fails settles its call; the call to the
\* provider StalledSource carries no timeout (the axios calls pass none) and
\* may stay pending for ever.
StalledSource == "accuweather"
SpecStall ==
    /\ Init /\ [][WeatherNext]_vars
    /\ \A s \in KnownSources \ {StalledSource} :
          WF_vars(\E o \in ProviderOutcomes : AdapterSettle(s, o))
    /\ WF_vars(Join)
    /\ WF_vars(\E o \in SaveOutcomes : SaveWeather(o))
    /\ WF_vars(Respond)

----------------------------------------------------------------------------
(* The functions on their own: one call of one function, on drawn arguments *)

SourceInputs == KnownSources \cup {"unknown", "", "constructor"}
PlaceInputs == {"Seattle, US", "Paris, FR"}
AccuracyInputs == {85, 87, 94}
ParamInputs ==
    {ParamsOf(query) : query \in [lat : LatInputs, lon : LonInputs, location : LocationInputs]}

\* a scored record of source s with accuracy a
Scored(s, a) ==
    [source |-> s, location |-> ProviderPlace, latitude |-> "47.6062",
     longitude |-> "-122.3321", accuracy |-> Num(a)]

\* the records of the sources in S, in the configured order, scored by f
RECURSIVE InOrder(_, _, _)
InOrder(S, f, i) ==
    IF i > Len(weatherSources) THEN <<>>
    ELSE IF weatherSources[i] \in S
         THEN <<Scored(weatherSources[i], f[weatherSources[i]])>> \o InOrder(S, f, i + 1)
         ELSE InOrder(S, f, i + 1)

\* every list the selector can be handed: one record per succeeding source, in
\* the configured order, whatever the scores
ScoredLists ==
    UNION {{InOrder(S, f, 1) : f \in [S -> AccuracyInputs]} : S \in (SUBSET KnownSources) \ {{}}}

\* Locations around New York: name, lat, lon in 1e-4 degrees
NearbyEntries ==
    { [name |-> <<"N", "Y", "C">>, lat |-> 407128, lon |-> -740060,
       country |-> Text(<<"U", "S">>), state |-> Text(<<"N", "Y">>)],
      [name |-> <<"S", "o", "H", "o">>, lat |-> 407135, lon |-> -740058,
       country |-> Text(<<"U", "S">>), state |-> Text(<<"N", "Y">>)],
      [name |-> <<"N", "o", "H", "o">>, lat |-> 407228, lon |-> -740300,
       country |-> Text(<<"U", "S">>), state |-> NoText] }

\* the caches a lookup is made on: up to MaxCached saved Locations
MaxCached == 2
RECURSIVE saveAll(_, _, _)
saveAll(store, list, i) ==
    IF i > Len(list) THEN store
    ELSE saveAll(saveLocation(store, mapLocation(list[i])), list, i + 1)
CacheInputs ==
    {saveAll(<<>>, list, 1) : list \in UNION {[1..n -> NearbyEntries] : n \in 0..MaxCached}}

\* the coordinates looked up: at a stored Location, 0.01 to either side of it,
\* just inside that, and far away
LookupLats == {407128, 407228, 407028, 407227, 407500}
LookupLons == {-740060, -740160, -739960, -740159, -740500}

\* what a provider supplies: OpenWeatherMap 40 items for its 5 days, the
\* other two the 10 days asked for; also less, and more
ItemCounts == {0, 1, 24, 25, 40, 80, 81, 96}
DayCounts == {0, 1, 3, 10, 11, 14}
HourCounts == {0, 23, 24, 25}
AnswerInputs == [items : ItemCounts, days : DayCounts, hours : HourCounts]

CallInputs ==
    {[fn |-> "forecastOf", source |-> s, answer |-> a] :
        s \in KnownSources, a \in AnswerInputs}
    \cup
    {[fn |-> "getLocationByCoords", store |-> c, lat |-> lat, lon |-> lon] :
        c \in CacheInputs, lat \in LookupLats, lon \in LookupLons}
    \cup
    {[fn |-> "getWeatherAccuracy", source |-> s, location |-> l] :
        s \in SourceInputs, l \in PlaceInputs}
    \cup {[fn |-> "reduce", list |-> l] : l \in ScoredLists}
    \cup {[fn |-> "fetchWeatherFromSource", source |-> s, params |-> p, outcome |-> o] :
            s \in SourceInputs, p \in ParamInputs, o \in ProviderOutcomes}

CallGetWeatherAccuracy ==
    /\ call.fn = "getWeatherAccuracy"
    /\ ~returned.done
    /\ returned' = Returned(getWeatherAccuracy(call.source, call.location))
    /\ UNCHANGED <<wvars, svars, call>>

CallReduce ==
    /\ call.fn = "reduce"
    /\ ~returned.done
    /\ returned' = Returned(mostAccurateOf(call.list))
    /\ UNCHANGED <<wvars, svars, call>>

CallFetchWeatherFromSource ==
    /\ call.fn = "fetchWeatherFromSource"
    /\ ~returned.done
    /\ returned' = Returned(fetchWeatherFromSource(call.source, call.params, call.outcome))
    /\ UNCHANGED <<wvars, svars, call>>

CallGetLocationByCoords ==
    /\ call.fn = "getLocationByCoords"
    /\ ~returned.done
    /\ returned' = Returned(getLocationByCoords(call.store, call.lat, call.lon))
    /\ UNCHANGED <<wvars, svars, call>>

CallForecastOf ==
    /\ call.fn = "forecastOf"
    /\ ~returned.done
    /\ returned' = Returned(forecastOf(call.source, call.answer))
    /\ UNCHANGED <<wvars, svars, call>>

InitCalls ==
    /\ Constructed
    /\ call \in CallInputs
    /\ returned = NotReturned

NextCalls ==
    \/ CallGetWeatherAccuracy
    \/ CallReduce
    \/ CallFetchWeatherFromSource
    \/ CallGetLocationByCoords
    \/ CallForecastOf

SpecCalls == InitCalls /\ [][NextCalls]_vars

----------------------------------------------------------------------------
(* Properties *)

\* the adapter call of source s gave a record, gave none
Succeeded(s) == calls[s].status = "fulfilled" /\ calls[s].value # Null
Failed(s) == calls[s].status = "rejected" \/ calls[s] = Fulfilled(Null)
SucceededSet == {s \in KnownSources : Succeeded(s)}
Answered == wpc = "done" /\ wres.status # 400
Hundredths(r) == r.accuracy.hundredths
IndexOf(list, r) == {i \in 1..Len(list) : list[i] = r}

\* C1: when at least one adapter succeeded, the response is a success, its
\* sources are non-empty, and mostAccurate is one of them whose accuracy is at
\* least that of every other
C1_BestOfNonEmpty ==
    SucceededSet # {} =>
        /\ wres.status \in {0, 200}
        /\ wpc = "done" =>
             /\ wres.status = 200
             /\ Len(wres.sources) > 0
             /\ IndexOf(wres.sources, wres.mostAccurate) # {}
             /\ \A i \in 1..Len(wres.sources) :
                    Hundredths(wres.mostAccurate) >= Hundredths(wres.sources[i])

C1_Witness ==
    /\ wpc = "done" /\ wres.status = 200
    /\ Len(wres.sources) >= 2
    /\ \E s \in KnownSources : Failed(s)
    /\ wres.mostAccurate # wres.sources[1]

\* C2: when all three adapters failed the response is the 503, never the 500
\* and never a success; and no success has empty sources or a null best
C2_AllSourcesFailed ==
    /\ (\A s \in KnownSources : Failed(s)) =>
          /\ wres.status \in {0, 503}
          /\ wpc = "done" => wres = AllSourcesFailed /\ wres.status = 503
    /\ wres.status # 500
    /\ wres.status = 200 =>
          /\ Len(wres.sources) > 0
          /\ wres.mostAccurate # Null
          /\ \A i \in 1..Len(wres.sources) : wres.sources[i] # Null

C2_Witness ==
    /\ wpc = "done" /\ wres.status = 503
    /\ \A s \in KnownSources : Failed(s)

\* C3: no failure leaves the dispatcher as a rejection, and with a non-empty
\* set S of succeeding adapters the request succeeds with exactly one record
\* per adapter of S and none for a failed adapter
C3_FailureContained ==
    /\ \A s \in KnownSources : calls[s].status # "rejected"
    /\ (Answered /\ SucceededSet # {}) =>
          /\ wres.status = 200
          /\ \A s \in KnownSources :
                Cardinality({i \in 1..Len(wres.sources) : wres.sources[i].source = s})
                    = IF Succeeded(s) THEN 1 ELSE 0
          /\ Len(wres.sources) = Cardinality(SucceededSet)

C3_Witness ==
    /\ wpc = "done" /\ wres.status = 200
    /\ SucceededSet = {"accuweather"}
    /\ Len(wres.sources) = 1 /\ wres.sources[1].source = "accuweather"

\* the parts of C4: issued together; nothing before all settled; a settling
\* call touches neither its siblings nor the handler
C4_IssuedTogether ==
    (\E s \in KnownSources : calls[s].status # "none") =>
        \A s \in KnownSources : calls[s].status # "none"
C4_NothingBeforeAll ==
    (wres.status \in {200, 503} \/ wpc = "saving" \/ weatherWithAccuracy # <<>>)
        => \A s \in KnownSources : calls[s].status \notin {"none", "pending"}
C4_NoCancel ==
    \A s \in KnownSources :
        (calls[s] = Pending /\ calls'[s] # Pending) =>
            /\ \A t \in KnownSources \ {s} : calls'[t] = calls[t]
            /\ wpc' = wpc /\ wres' = wres /\ weatherData' = weatherData
\* C4: every call is issued before any settles, nothing is answered or scored
\* or saved before all three have settled, and a call that settles, as a
\* success or as a failure, leaves its siblings, the handler's position and
\* the response as they were
C4_WaitForAll ==
    /\ [](C4_IssuedTogether /\ C4_NothingBeforeAll)
    /\ [][C4_NoCancel]_vars

C4_Witness ==
    /\ wpc = "fanout" /\ wres = NoResponse
    /\ Succeeded("weatherapi") /\ Failed("accuweather")
    /\ calls["openweathermap"] = Pending

\* the position of a source in the configured order, and the records of a
\* list that carry its greatest accuracy
ConfiguredIndex(source) == CHOOSE k \in 1..Len(weatherSources) : weatherSources[k] = source
MaxHundredths(list) ==
    CHOOSE m \in {Hundredths(list[i]) : i \in 1..Len(list)} :
        \A i \in 1..Len(list) : Hundredths(list[i]) <= m
AtMax(list) == {i \in 1..Len(list) : Hundredths(list[i]) = MaxHundredths(list)}
\* C5: of the records sharing the maximum accuracy, the selector returns the
\* one whose adapter comes first in the configured order
C5_TieBreakFirst ==
    (call.fn = "reduce" /\ returned.done) =>
        /\ Hundredths(returned.value) = MaxHundredths(call.list)
        /\ \A i \in AtMax(call.list) :
              ConfiguredIndex(returned.value.source) <= ConfiguredIndex(call.list[i].source)

C5_Witness ==
    /\ call.fn = "reduce" /\ returned.done
    /\ Len(call.list) = 3
    /\ AtMax(call.list) = {2, 3}
    /\ returned.value = call.list[2]

\* C6: with openweathermap (0.94) and weatherapi (0.87) succeeding and
\* accuweather failing, sources has two records and mostAccurate is
\* openweathermap's; in general mostAccurate comes from the succeeding
\* provider with the highest score of the table
C6_HighestStaticScore ==
    (Answered /\ SucceededSet # {}) =>
        /\ wres.status = 200
        /\ wres.mostAccurate.source \in SucceededSet
        /\ \A s \in SucceededSet :
              accuracyMap[wres.mostAccurate.source] >= accuracyMap[s]
        /\ SucceededSet = {"openweathermap", "weatherapi"} =>
              /\ Len(wres.sources) = 2
              /\ wres.mostAccurate.source = "openweathermap"
              /\ Hundredths(wres.mostAccurate) = 94
              /\ Hundredths(wres.sources[2]) = 87

C6_Witness ==
    /\ wpc = "done" /\ wres.status = 200
    /\ SucceededSet = {"openweathermap", "weatherapi"} /\ Failed("accuweather")
    /\ wquery.lat = "47.6062" /\ wquery.lon = "-122.3321"
    /\ wres.mostAccurate.source = "openweathermap"

\* the part of C7 about the response: every record of sources carries the
\* score of its own source, a number in [0, 1]
C7_ScoreOfOwnSource ==
    wres.status = 200 =>
        \A i \in 1..Len(wres.sources) :
            /\ wres.sources[i].accuracy = Num(accuracyMap[wres.sources[i].source])
            /\ Hundredths(wres.sources[i]) \in 0..100
\* C7: getWeatherAccuracy returns the table's value for a known provider and
\* the baseline 0.85 for every other string, and every record of sources
\* carries the score of its own source, a number in [0, 1]
C7_ScoreAlwaysDefined ==
    /\ (call.fn = "getWeatherAccuracy" /\ returned.done) =>
          returned.value =
              IF call.source \in KnownSources THEN Num(accuracyMap[call.source])
              ELSE Num(BaselineAccuracy)
    /\ C7_ScoreOfOwnSource

\* the records scored, stored or answered
RecordsInFlight ==
    {weatherWithAccuracy[i] : i \in 1..Len(weatherWithAccuracy)}
    \cup {weatherData[i] : i \in 1..Len(weatherData)}
    \cup (IF wres.status = 200
          THEN {wres.sources[i] : i \in 1..Len(wres.sources)}
               \cup {wres.mostAccurate, wres.aggregated}
          ELSE {})
\* C8: every record in a response or handed to the store has one of the three
\* known sources, and the dispatcher gives no record for any other source
C8_KnownSourcesOnly ==
    /\ \A r \in RecordsInFlight : r.source \in KnownSources
    /\ \A s \in SourceInputs \ KnownSources, p \in ParamInputs, o \in ProviderOutcomes :
          LET r == fetchWeatherFromSource(s, p, o)
          IN /\ r = Fulfilled(Null)
             /\ successfulResults([k \in KnownSources |-> r], 1) = <<>>

C8_Witness ==
    /\ wpc = "done" /\ wres.status = 200
    /\ Len(weatherData) >= 2
    /\ Len(wres.sources) = 3

\* sub occurs in text, letter case ignored; a Location matches when it does
\* in its name, country or state
SameLetter(a, b) == a = b \/ \E i \in 1..Len(Uppers) : {a, b} = {Uppers[i], Lowers[i]}
ContainsIgnoringCase(text, sub) ==
    \E k \in 0..(Len(text) - Len(sub)) :
        \A j \in 1..Len(sub) : SameLetter(text[k + j], sub[j])
MatchesIgnoringCase(loc, sub) ==
    \/ ContainsIgnoringCase(loc.name, sub)
    \/ (loc.country.def /\ ContainsIgnoringCase(loc.country.text, sub))
    \/ (loc.state.def /\ ContainsIgnoringCase(loc.state.text, sub))
CachedMatches == {i \in 1..Len(locations) : MatchesIgnoringCase(locations[i], q.text)}
\* C9: when the geocoding call failed, the answer is a success holding exactly
\* the cached Locations whose name, country or state contains the query,
\* letter case ignored, in cache order, and is empty when none does
C9_FallbackFromCache ==
    geocode = Rejected =>
        /\ spc = "done"
        /\ sres.status = 200
        /\ sres.body = SelectSeq(locations, LAMBDA loc : MatchesIgnoringCase(loc, q.text))
        /\ Len(sres.body) = Cardinality(CachedMatches)
        /\ CachedMatches = {} => sres.body = <<>>

C9_Witness ==
    /\ geocode = Rejected
    /\ q.text = <<"c", "o">>
    /\ Len(locations) = 3
    /\ Len(sres.body) = 1
    /\ sres.body[1].name = <<"A", "s", "p", "e", "n">>

\* location is the geocoder's entry, field for field; the parts of C10
IsMapped(location, entry) ==
    /\ location.name = entry.name
    /\ location.latitude = entry.lat /\ location.longitude = entry.lon
    /\ location.country = entry.country /\ location.state = entry.state
C10_Answer ==
    geocode.status = "fulfilled" =>
        /\ spc \in {"saving", "done"}
        /\ Len(ssaves) <= Len(geocode.value)
        /\ spc = "done" =>
              /\ Len(ssaves) = Len(geocode.value)
              /\ sres.status = 200
              /\ Len(sres.body) = Len(geocode.value)
              /\ \A i \in 1..Len(geocode.value) : IsMapped(sres.body[i], geocode.value[i])
C10_SaveStep ==
    (geocode.status = "fulfilled" /\ ssaves' # ssaves /\ ssaves' # <<>>) =>
        /\ Len(ssaves') = Len(ssaves) + 1
        /\ spc' = "saving" /\ sres' = NoResponse /\ found' = found
        /\ IF ssaves'[Len(ssaves')] = "ok"
           THEN /\ Len(locations') = Len(locations) + 1
                /\ IsMapped(locations'[Len(locations')], geocode.value[Len(ssaves')])
                /\ SubSeq(locations', 1, Len(locations)) = locations
           ELSE locations' = locations
\* C10: when the geocoding call succeeded, every returned Location is handed
\* to saveLocation, a rejected save changes nothing but the loop's position,
\* and the answer is the provider's results whatever the saves did
C10_PrimaryPath == []C10_Answer /\ [][C10_SaveStep]_vars

C10_Witness ==
    /\ geocode.status = "fulfilled" /\ spc = "done"
    /\ ssaves = <<"rejected", "ok">>
    /\ sres.status = 200 /\ Len(sres.body) = 2
    /\ IsMapped(locations[Len(locations)], geocode.value[2])

\* the stored Location loc is within 0.01 degrees of (lat, lon) on both axes
InTolerance(loc, lat, lon) ==
    /\ Abs(loc.latitude - lat) < Tolerance
    /\ Abs(loc.longitude - lon) < Tolerance
NearHits == {i \in 1..Len(call.store) : InTolerance(call.store[i], call.lat, call.lon)}
LookedUp == call.fn = "getLocationByCoords" /\ returned.done
\* no stored coordinate is exactly 0.01 degrees from the one looked up
OffBoundary ==
    \A i \in 1..Len(call.store) :
        /\ Abs(call.store[i].latitude - call.lat) # Tolerance
        /\ Abs(call.store[i].longitude - call.lon) # Tolerance
FindsNear ==
    /\ (returned.value # UndefinedLocation) <=> (NearHits # {})
    /\ (returned.value # UndefinedLocation) =>
          \E i \in NearHits : returned.value = call.store[i]

\* C11: the lookup returns a stored Location exactly when some stored Location
\* is less than 0.01 degrees from the coordinates on both axes, and the one
\* returned is such a Location; a Location within the tolerance on one axis
\* only, or exactly 0.01 degrees away, is not returned
C11_FindNear == LookedUp => FindsNear

\* what does hold of the lookup: it is as C11 says whenever no stored
\* coordinate is exactly 0.01 degrees from the one looked up
C11_FindNearOffBoundary == (LookedUp /\ OffBoundary) => FindsNear
C11_OffBoundaryWitness ==
    /\ LookedUp /\ OffBoundary
    /\ Len(call.store) = 2 /\ NearHits = {2}
    /\ returned.value = call.store[2]

\* C12: the cache never holds two distinct entries whose latitudes differ by
\* less than 0.01 degrees and whose longitudes differ by less than 0.01 degrees
C12_NoNearDuplicates ==
    \A i, j \in 1..Len(locations) :
        i # j => ~InTolerance(locations[i], locations[j].latitude, locations[j].longitude)

\* the adapter calls of the request in hand have been issued
Issued == \E s \in KnownSources : calls[s].status # "none"

\* C13: no adapter is ever invoked with coordinates that are undefined or not
\* a number: a request that gives only a location text has it resolved to
\* coordinates before the adapters are called with them
C13_ResolvedBeforeFanOut ==
    Issued =>
        /\ ParamsOf(wquery).lat \notin {Undefined, "NaN"}
        /\ ParamsOf(wquery).lon \notin {Undefined, "NaN"}

\* C14: a provider that stalls is treated as one that failed: with one adapter
\* call that never settles while the others settle, the request in hand is
\* still answered eventually
C14_StalledAsFailed == (wpc = "fanout") ~> (wpc = "done")

\* an adapter built a record from the provider's answer
Built == call.fn = "forecastOf" /\ returned.done /\ returned.value # Null

\* C15: whatever the provider supplied, the record an adapter builds has at
\* most 24 hourly entries and at most 10 daily entries
C15_ForecastLengths ==
    Built => returned.value.hourly <= HourlyLimit /\ returned.value.daily <= DailyLimit

\* what does hold of the lists: every adapter keeps the hourly list to 24,
\* OpenWeatherMap's adapter keeps the daily list to 10, and the other two pass
\* on as many days as the provider supplied
C15_LengthsAsBuilt ==
    Built =>
        /\ returned.value.hourly <= HourlyLimit
        /\ call.source = "openweathermap" => returned.value.daily <= DailyLimit
        /\ call.source # "openweathermap" => returned.value.daily = call.answer.days
C15_AsBuiltWitness ==
    /\ Built /\ call.source = "openweathermap" /\ call.answer.items = 96
    /\ returned.value = [hourly |-> 24, daily |-> 10]

\* the positions of the save loop whose save was rejected, succeeded
RejectedSaves == {i \in 1..Len(wsaves) : wsaves[i] = "rejected"}
OkSaves == {i \in 1..Len(wsaves) : wsaves[i] = "ok"}
\* where in the store the record of position i of the save loop was put
SavedAt(i) == Len(weatherData) - Cardinality({j \in OkSaves : j > i})
\* the response of the request had every save succeeded: it is made of the
\* settled calls alone
ResponseOfCalls == WeatherResponse(accuracyPromises(successfulResults(calls, 1)))

\* C16: a record whose save fails is logged and the failure goes no further:
\* every later record is still offered to the store, the request is never
\* answered with the 500, and its response is the one it would have had with
\* every save succeeding
C16_SaveFailureContained ==
    /\ wres.status # 500
    /\ Len(wlog) = Cardinality(RejectedSaves)
    /\ \A i \in 1..Len(wlog) : wlog[i] = "Failed to save weather data:"
    /\ Len(weatherData) >= Cardinality(OkSaves)
    /\ \A i \in OkSaves : weatherData[SavedAt(i)] = StoredWeather(weatherWithAccuracy[i], SavedAt(i))
    /\ (wpc = "done" /\ wres.status = 200) =>
          /\ Len(wsaves) = Len(weatherWithAccuracy)
          /\ wres = ResponseOfCalls

C16_Witness ==
    /\ wpc = "done" /\ wres.status = 200
    /\ Len(wsaves) = 3
    /\ wsaves[1] = "rejected" /\ wsaves[2] = "ok" /\ wsaves[3] = "rejected"
    /\ weatherData[Len(weatherData)].source = "weatherapi"

\* the parts of C17.  Every entry of either store is still there, unchanged
\* and at its place, after any step.
C17_Kept ==
    /\ \A i \in 1..Len(weatherData) :
          i <= Len(weatherData') /\ weatherData'[i] = weatherData[i]
    /\ \A i \in 1..Len(locations) :
          i <= Len(locations') /\ locations'[i] = locations[i]
\* the length the record store had when the request in hand began
StartedWith == Len(weatherData) - Cardinality(OkSaves)
\* the store changes only by the save loop, by one record per save that succeeds
C17_OnePerSave ==
    IF wsaves' = <<>> THEN weatherData' = weatherData ELSE StartedWith' = StartedWith
\* a request answered with every save succeeding has added one record for
\* each adapter that succeeded, and no other
C17_OnePerSuccess ==
    (wpc = "done" /\ wres.status = 200 /\ RejectedSaves = {}) =>
        /\ Len(weatherData) - StartedWith = Cardinality(SucceededSet)
        /\ \A s \in KnownSources :
              Cardinality({i \in (StartedWith + 1)..Len(weatherData) : weatherData[i].source = s})
                  = IF Succeeded(s) THEN 1 ELSE 0

BestSucceeded ==
    CHOOSE s \in SucceededSet : \A t \in SucceededSet : accuracyMap[s] >= accuracyMap[t]

\* C18: the response does not depend on the order in which the adapter calls
\* settled: sources lists the successes in the configured adapter order, each
\* the record of its own call with its score, and mostAccurate is the same
\* record whatever the order
C18_SettleOrderIrrelevant ==
    (wpc = "done" /\ wres.status = 200) =>
        /\ {wres.sources[i].source : i \in 1..Len(wres.sources)} = SucceededSet
        /\ \A i, j \in 1..Len(wres.sources) :
              i < j => ConfiguredIndex(wres.sources[i].source)
                          < ConfiguredIndex(wres.sources[j].source)
        /\ \A i \in 1..Len(wres.sources) :
              wres.sources[i] = WithAccuracy(calls[wres.sources[i].source].value)
        /\ wres.mostAccurate = WithAccuracy(calls[BestSucceeded].value)
        /\ wres.aggregated = wres.mostAccurate

C18_Witness ==
    /\ wpc = "done" /\ wres.status = 200
    /\ settleOrder = <<"accuweather", "weatherapi", "openweathermap">>
    /\ SucceededSet = KnownSources
    /\ wres.sources[1].source = "openweathermap"

\* the parts of C19.  A request answered with the 400 or the 503 has consulted
\* no score and offered no record to the store.
C19_NothingOnError ==
    wres.status \in {400, 503} => weatherWithAccuracy = <<>> /\ wsaves = <<>> /\ wlog = <<>>
\* the store is as it was while no save of the request has run and when the
\* 400 or the 503 is sent, and it changes only with every call settled
C19_WritesAfterAllSettled ==
    /\ (wsaves' = <<>> \/ wres'.status \in {400, 503}) => weatherData' = weatherData
    /\ weatherData' # weatherData =>
          \A s \in KnownSources : calls[s].status \in {"fulfilled", "rejected"}

\* C19: a request that ends in the 400 or in the 503 writes no record and
\* consults no score, and a record is written to the store only after every
\* adapter call of the request has settled
C19_NoWriteOnError ==
    /\ [](C19_NothingOnError)
    /\ [][C19_WritesAfterAllSettled]_vars

C19_Witness ==
    /\ wpc = "done" /\ wres.status = 503
    /\ Len(settleOrder) = 3
    /\ Len(weatherData) = 1

\* the parts of C20.  A request on the fallback path has offered nothing to
\* the cache.
C20_NoSaveOnFallback == geocode = Rejected => ssaves = <<>> /\ found = <<>>
\* the step that takes the fallback leaves the cache as it was, and the cache
\* changes only in the save loop of the primary path, by one of the geocoder's
\* results added at its end
C20_GrowsOnPrimaryOnly ==
    /\ geocode' = Rejected => locations' = locations
    /\ locations' # locations =>
          /\ geocode.status = "fulfilled" /\ spc = "saving"
          /\ Len(locations') = Len(locations) + 1
          /\ \A i \in 1..Len(locations) : locations'[i] = locations[i]
          /\ \E e \in 1..Len(geocode.value) :
                IsMapped(locations'[Len(locations')], geocode.value[e])

\* C20: the fallback path only reads the cache: it calls no save, the cache
\* after a fallback request is the cache before it, and the cache grows only
\* on the primary path
C20_FallbackReadOnly ==
    /\ [](C20_NoSaveOnFallback)
    /\ [][C20_GrowsOnPrimaryOnly]_vars

C20_Witness ==
    /\ spc = "done" /\ geocode = Rejected
    /\ Len(locations) = 2
    /\ Len(sres.body) = 1

============================================================================
